---------------------------- MODULE Spec2Model ----------------------------
(***************************************************************************)
(* Model of the Zerynth ST7735 display driver (src/st7735.py).             *)
(*                                                                         *)
(* One action per public method of class ST7735.  A call runs to its end   *)
(* (the driver is synchronous and single-threaded) and leaves in `trace`   *)
(* the pin and SPI events it produced, in order, in `result` the exception *)
(* it raised ("" when it returned) and in `call` its name and arguments.   *)
(* The driver's own attributes are the other variables.                    *)
(***************************************************************************)
EXTENDS Integers, Sequences, FiniteSets, TLC

VARIABLES
    width, height,        \* self.width, self.height
    colstart, rowstart,   \* self.colstart, self.rowstart
    rotation,             \* self.rotation
    rst, backlight,       \* self.rst, self.backlight: TRUE when a pin was given
    cs,                   \* level of the chip-select line (0 asserted, 1 released)
    s_buf, c_buf,         \* self.s_buf, self.c_buf: None or Some(bytes)
    dynamic_area,         \* self.dynamic_area
    textattr,             \* self.font, first_char, last_char, font_height,
                          \* font_color, align, background (None until assigned)
    call, result, trace   \* the last public call, its outcome, its bus events

vars == <<width, height, colstart, rowstart, rotation, rst, backlight,
          cs, s_buf, c_buf, dynamic_area, textattr,
          call, result, trace>>

devstate == <<width, height, colstart, rowstart, rotation>>

-----------------------------------------------------------------------------
(* Bounds of the explored inputs.                                          *)

\* sizes and lengths tried go from 0 to MaxSmall, and up to the edge
MaxSmall == 1
\* origins and sizes tried reach MaxOver past the far edge
MaxOver == 1

-----------------------------------------------------------------------------
(* Python values.                                                          *)

None == {}
Some(v) == {v}
Val(o) == CHOOSE v \in o : TRUE

RECURSIVE BitAnd(_, _)
BitAnd(a, b) ==
    IF a = 0 \/ b = 0 THEN 0
    ELSE (IF a % 2 = 1 /\ b % 2 = 1 THEN 1 ELSE 0) + 2 * BitAnd(a \div 2, b \div 2)

RECURSIVE BitOr(_, _)
BitOr(a, b) ==
    IF a = 0 THEN b
    ELSE IF b = 0 THEN a
    ELSE (IF a % 2 = 1 \/ b % 2 = 1 THEN 1 ELSE 0) + 2 * BitOr(a \div 2, b \div 2)

RECURSIVE Pow2(_)
Pow2(n) == IF n = 0 THEN 1 ELSE 2 * Pow2(n - 1)

Shl(a, n) == a * Pow2(n)
Shr(a, n) == a \div Pow2(n)

\* a value a bytearray element can hold
IsByte(v) == v \in 0..255

\* type tags of the arguments the driver type-checks
PList(v) == [type |-> "PLIST", v |-> v]
PTuple(v) == [type |-> "PTUPLE", v |-> v]
PByteArray(v) == [type |-> "PBYTEARRAY", v |-> v]

-----------------------------------------------------------------------------
(* Register codes.                                                         *)

ST7735_TFTWIDTH == 80
ST7735_TFTHEIGHT == 160

ST7735_SWRESET == 1
ST7735_SLPOUT == 17
ST7735_NORON == 19
ST7735_INVOFF == 32
ST7735_INVON == 33
ST7735_DISPOFF == 40
ST7735_DISPON == 41
ST7735_CASET == 42
ST7735_RASET == 43
ST7735_RAMWR == 44
ST7735_COLMOD == 58
ST7735_MADCTL == 54
ST7735_MAD_MY == 128
ST7735_MAD_MX == 64
ST7735_MAD_MV == 32
ST7735_MAD_BGR == 8
ST7735_MAD_MH == 4
ST7735_FRMCTR1 == 177
ST7735_FRMCTR2 == 178
ST7735_FRMCTR3 == 179
ST7735_INVCTR == 180
ST7735_PWCTR1 == 192
ST7735_PWCTR2 == 193
ST7735_PWCTR3 == 194
ST7735_PWCTR4 == 195
ST7735_PWCTR5 == 196
ST7735_VMCTR1 == 197
ST7735_GMCTRP1 == 224

\* [MADCTL byte, colstart, rowstart, swap] per rotation 0..3
rotation_settings ==
    << [madctl |-> BitOr(BitOr(ST7735_MAD_MX, ST7735_MAD_MY), BitOr(ST7735_MAD_MH, ST7735_MAD_BGR)),
        colstart |-> 26, rowstart |-> 1, swap |-> FALSE],
       [madctl |-> BitOr(BitOr(ST7735_MAD_MV, ST7735_MAD_MY), ST7735_MAD_BGR),
        colstart |-> 1, rowstart |-> 26, swap |-> TRUE],
       [madctl |-> ST7735_MAD_BGR,
        colstart |-> 26, rowstart |-> 1, swap |-> FALSE],
       [madctl |-> BitOr(BitOr(ST7735_MAD_MX, ST7735_MAD_MV), ST7735_MAD_BGR),
        colstart |-> 1, rowstart |-> 26, swap |-> TRUE] >>

-----------------------------------------------------------------------------
(* Transport: what a method asks of the bus is a sequence of steps, run    *)
(* in order until one raises.                                              *)

Ev(e, v, b) == [ev |-> e, v |-> v, bytes |-> b]

Cmd(c) == [op |-> "cmd", v |-> c, bytes |-> <<>>]
Data(d) == [op |-> "data", v |-> d, bytes |-> <<>>]
SendData(b) == [op |-> "send", v |-> 0, bytes |-> b]
PinWrite(p, v) == [op |-> p, v |-> v, bytes |-> <<>>]

\* self.buf[0] = v; self.write(self.buf): storing a value outside 0..255
\* in a bytearray raises ValueError, after select() and the dc write
StoreAndWrite(v) ==
    IF IsByte(v)
    THEN [ev |-> <<Ev("write", 0, <<v>>), Ev("unselect", 0, <<>>)>>, exc |-> ""]
    ELSE [ev |-> <<>>, exc |-> "ValueError"]

_command(cmd) ==
    LET w == StoreAndWrite(cmd)
    IN  [ev |-> <<Ev("select", 0, <<>>), Ev("dc", 0, <<>>)>> \o w.ev, exc |-> w.exc]

_data(data) ==
    LET w == StoreAndWrite(data)
    IN  [ev |-> <<Ev("select", 0, <<>>), Ev("dc", 1, <<>>)>> \o w.ev, exc |-> w.exc]

_send_data(data) ==
    [ev |-> <<Ev("select", 0, <<>>), Ev("dc", 1, <<>>),
              Ev("write", 0, data), Ev("unselect", 0, <<>>)>>,
     exc |-> ""]

Step(i) ==
    CASE i.op = "cmd" -> _command(i.v)
      [] i.op = "data" -> _data(i.v)
      [] i.op = "send" -> _send_data(i.bytes)
      [] OTHER -> [ev |-> <<Ev(i.op, i.v, <<>>)>>, exc |-> ""]

\* the events of steps lo..hi, in order
RECURSIVE Events(_, _, _)
Events(steps, lo, hi) ==
    IF lo > hi THEN <<>>
    ELSE IF lo = hi THEN steps[lo].ev
    ELSE LET mid == (lo + hi) \div 2
         IN  Events(steps, lo, mid) \o Events(steps, mid + 1, hi)

\* run the steps in order; the first one that raises ends the run
Run(prog) ==
    LET steps == [k \in 1..Len(prog) |-> Step(prog[k])]
        raising == {k \in 1..Len(prog) : steps[k].exc # ""}
        last == IF raising = {} THEN Len(prog)
                ELSE CHOOSE k \in raising : \A j \in raising : k <= j
    IN  [ev |-> Events(steps, 1, last),
         exc |-> IF raising = {} THEN "" ELSE steps[last].exc]

\* the index in lo..hi of the last event with a name in names, 0 if none
RECURSIVE LastHit(_, _, _, _)
LastHit(evs, lo, hi, names) ==
    IF lo > hi THEN 0
    ELSE IF lo = hi THEN (IF evs[lo].ev \in names THEN lo ELSE 0)
    ELSE LET mid == (lo + hi) \div 2
             r == LastHit(evs, mid + 1, hi, names)
         IN  IF r # 0 THEN r ELSE LastHit(evs, lo, mid, names)

\* the level a line is left at by a run of events (dflt when untouched)
LastLevel(evs, names, dflt) ==
    LET k == LastHit(evs, 1, Len(evs), names)
    IN  IF k = 0 THEN dflt
        ELSE IF evs[k].ev = "select" THEN 0
        ELSE IF evs[k].ev = "unselect" THEN 1
        ELSE evs[k].v

-----------------------------------------------------------------------------
(* Protocol driver.                                                        *)

\* a method's outcome: the bus steps it asks for, then the exception it
\* raises itself ("" when none)
Outcome(prog, exc) == [prog |-> prog, exc |-> exc]

\* _color565 keeping only five bits of green
_color565_green5(color) ==
    LET r == color[1]
        g == color[2]
        b == color[3]
    IN  BitOr(BitOr(Shl(BitAnd(r, 248), 8), Shl(BitAnd(g, 248), 3)), Shr(b, 3))

_color565(color) ==
    LET r == color[1]
        g == color[2]
        b == color[3]
    IN  BitOr(BitOr(Shl(BitAnd(r, 248), 8), Shl(BitAnd(g, 252), 3)), Shr(b, 3))

_set_color(color) ==
    LET c == _color565(color)
    IN  <<Shr(c, 8), BitAnd(c, 255)>>

\* _prepare without its closing memory-write command
_prepare_unarmed(x0, y0, x1, y1) ==
    LET cx0 == x0 + colstart
        cx1 == x1 + colstart
        ry0 == y0 + rowstart
        ry1 == y1 + rowstart
    IN  << Cmd(ST7735_CASET),
           Data(Shr(cx0, 8)), Data(cx0), Data(Shr(cx1, 8)), Data(cx1),
           Cmd(ST7735_RASET),
           Data(Shr(ry0, 8)), Data(ry0), Data(Shr(ry1, 8)), Data(ry1) >>

_prepare(x0, y0, x1, y1) ==
    LET cx0 == x0 + colstart
        cx1 == x1 + colstart
        ry0 == y0 + rowstart
        ry1 == y1 + rowstart
    IN  << Cmd(ST7735_CASET),
           Data(Shr(cx0, 8)), Data(cx0), Data(Shr(cx1, 8)), Data(cx1),
           Cmd(ST7735_RASET),
           Data(Shr(ry0, 8)), Data(ry0), Data(Shr(ry1, 8)), Data(ry1),
           Cmd(ST7735_RAMWR) >>

\* the bytearray _create_send_buffer builds and sends
SendBuffer(lenght, d1, d2) ==
    [i \in 1..(2 * lenght) |-> IF i % 2 = 1 THEN d1 ELSE d2]

_create_send_buffer(lenght, d1, d2) == <<SendData(SendBuffer(lenght, d1, d2))>>

set_invert(value) ==
    IF value # 0 THEN <<Cmd(ST7735_INVON)>> ELSE <<Cmd(ST7735_INVOFF)>>

set_backlight(state) ==
    IF backlight THEN <<PinWrite("bl", state)>> ELSE <<>>

\* set_rotation's assignments without the width/height swap
RotationState_unswapped(r) ==
    LET values == rotation_settings[r + 1]
    IN  [rotation |-> r,
         colstart |-> values.colstart,
         rowstart |-> values.rowstart,
         width |-> ST7735_TFTWIDTH,
         height |-> ST7735_TFTHEIGHT]

\* the attributes set_rotation(r) assigns
RotationState(r) ==
    LET values == rotation_settings[r + 1]
    IN  [rotation |-> r,
         colstart |-> values.colstart,
         rowstart |-> values.rowstart,
         width |-> IF values.swap THEN ST7735_TFTHEIGHT ELSE ST7735_TFTWIDTH,
         height |-> IF values.swap THEN ST7735_TFTWIDTH ELSE ST7735_TFTHEIGHT]

\* set_rotation sending its command before it looks at the argument
set_rotation_command_first(r) ==
    IF r \notin {0, 1, 2, 3}
    THEN Outcome(<<Cmd(ST7735_MADCTL)>>, "ValueError")
    ELSE Outcome(<<Cmd(ST7735_MADCTL), Data(rotation_settings[r + 1].madctl)>>, "")

set_rotation(r) ==
    IF r \notin {0, 1, 2, 3}
    THEN Outcome(<<>>, "ValueError")
    ELSE Outcome(<<Cmd(ST7735_MADCTL), Data(rotation_settings[r + 1].madctl)>>, "")

_init ==
    << Cmd(ST7735_SWRESET), Cmd(ST7735_SLPOUT),
       Cmd(ST7735_FRMCTR1), Data(1), Data(44), Data(45),
       Cmd(ST7735_FRMCTR2), Data(1), Data(44), Data(45),
       Cmd(ST7735_FRMCTR3), Data(1), Data(44), Data(45), Data(1), Data(44), Data(45),
       Cmd(ST7735_INVCTR), Data(7),
       Cmd(ST7735_PWCTR1), Data(162), Data(2), Data(132),
       Cmd(ST7735_PWCTR2), Data(197),
       Cmd(ST7735_PWCTR3), Data(10), Data(0),
       Cmd(ST7735_PWCTR4), Data(138), Data(42),
       Cmd(ST7735_PWCTR5), Data(138), Data(238),
       Cmd(ST7735_VMCTR1), Data(14) >>
    \o set_invert(1)
    \o set_rotation(1).prog
    \o << Cmd(ST7735_COLMOD), Data(5),
          Cmd(ST7735_CASET), Data(0), Data(0), Data(0), Data(127),
          Cmd(ST7735_RASET), Data(0), Data(0), Data(0), Data(159),
          Cmd(ST7735_GMCTRP1),
          Data(44), Data(28), Data(7), Data(18), Data(55), Data(50), Data(41), Data(45),
          Data(41), Data(37), Data(43), Data(57), Data(0), Data(1), Data(3), Data(16),
          Cmd(ST7735_NORON),
          Cmd(ST7735_DISPON) >>

\* reset driving the reset pin high first and leaving it low
reset_released_first ==
    (IF rst THEN <<PinWrite("rst", 1), PinWrite("rst", 0)>> ELSE <<>>) \o _init

reset ==
    (IF rst THEN <<PinWrite("rst", 0), PinWrite("rst", 1)>> ELSE <<>>) \o _init

-----------------------------------------------------------------------------
(* Shape rasterizer.                                                       *)

\* fill_rect checking the color only once the window is set
fill_rect_late_color_check(x, y, w, h, color) ==
    IF x > width \/ y > height THEN Outcome(<<>>, "ValueError")
    ELSE IF w < 1 \/ h < 1 \/ x < 0 \/ y < 0 THEN Outcome(<<>>, "ValueError")
    ELSE
      LET x1 == IF x = width THEN width - 1 ELSE x
          y1 == IF y = height THEN height - 1 ELSE y
          w1 == IF x1 + w > width THEN width - x1 ELSE w
          h1 == IF y1 + h > height THEN height - y1 ELSE h
      IN  IF color.type # "PLIST"
          THEN Outcome(_prepare(x1, y1, x1 + w1 - 1, y1 + h1 - 1), "ValueError")
          ELSE Outcome(_prepare(x1, y1, x1 + w1 - 1, y1 + h1 - 1)
                         \o _create_send_buffer(w1 * h1, _set_color(color.v)[1],
                                                _set_color(color.v)[2]), "")

\* fill_rect sizing its buffer from the width and height as given
fill_rect_untruncated(x, y, w, h, color) ==
    IF x > width \/ y > height THEN Outcome(<<>>, "ValueError")
    ELSE IF w < 1 \/ h < 1 \/ x < 0 \/ y < 0 THEN Outcome(<<>>, "ValueError")
    ELSE IF color.type # "PLIST" THEN Outcome(<<>>, "ValueError")
    ELSE
      LET x1 == IF x = width THEN width - 1 ELSE x
          y1 == IF y = height THEN height - 1 ELSE y
          w1 == IF x1 + w > width THEN width - x1 ELSE w
          h1 == IF y1 + h > height THEN height - y1 ELSE h
          d == _set_color(color.v)
      IN  Outcome(_prepare(x1, y1, x1 + w1 - 1, y1 + h1 - 1)
                    \o _create_send_buffer(w * h, d[1], d[2]), "")

fill_rect(x, y, w, h, color) ==
    IF x > width \/ y > height THEN Outcome(<<>>, "ValueError")
    ELSE IF w < 1 \/ h < 1 \/ x < 0 \/ y < 0 THEN Outcome(<<>>, "ValueError")
    ELSE IF color.type # "PLIST" THEN Outcome(<<>>, "ValueError")
    ELSE
      LET x1 == IF x = width THEN width - 1 ELSE x
          y1 == IF y = height THEN height - 1 ELSE y
          w1 == IF x1 + w > width THEN width - x1 ELSE w
          h1 == IF y1 + h > height THEN height - y1 ELSE h
          d == _set_color(color.v)
          lenght == w1 * h1
      IN  Outcome(_prepare(x1, y1, x1 + w1 - 1, y1 + h1 - 1)
                    \o _create_send_buffer(lenght, d[1], d[2]), "")

\* fill_screen passing the panel's extents in the wrong order
fill_screen_swapped(color) ==
    IF color.type # "PLIST" THEN Outcome(<<>>, "ValueError")
    ELSE fill_rect(0, 0, height, width, color)

fill_screen(color) ==
    IF color.type # "PLIST" THEN Outcome(<<>>, "ValueError")
    ELSE fill_rect(0, 0, width, height, color)

clear == fill_screen(PList(<<0, 0, 0>>))

draw_pixel(x, y, color) ==
    IF x > width \/ y > height THEN Outcome(<<>>, "ValueError")
    ELSE IF x < 0 \/ y < 0 THEN Outcome(<<>>, "ValueError")
    ELSE IF color.type # "PLIST" THEN Outcome(<<>>, "ValueError")
    ELSE
      LET x1 == IF x = width THEN width - 1 ELSE x
          y1 == IF y = height THEN height - 1 ELSE y
          d == _set_color(color.v)
      IN  Outcome(_prepare(x1, y1, 1, 1) \o <<SendData(<<d[1], d[2]>>)>>, "")

draw_line(x, y, lenght, color) ==
    IF x > width \/ y > height THEN Outcome(<<>>, "ValueError")
    ELSE IF x < 0 \/ y < 0 \/ lenght < 1 THEN Outcome(<<>>, "ValueError")
    ELSE IF color.type # "PLIST" THEN Outcome(<<>>, "ValueError")
    ELSE
      LET x1 == IF x = width THEN width - 1 ELSE x
          y1 == IF y = height THEN height - 1 ELSE y
          \* the truncated width is computed into w and never used
          w == IF x1 + lenght > width THEN width - x1 ELSE 0
          d == _set_color(color.v)
      IN  Outcome(_prepare(x1, y1, x1 + lenght - 1, y1)
                    \o _create_send_buffer(lenght, d[1], d[2]), "")

draw_img(image, x, y, w, h) ==
    IF image.type # "PBYTEARRAY" THEN Outcome(<<>>, "ValueError")
    ELSE IF x > width \/ y > height THEN Outcome(<<>>, "ValueError")
    ELSE IF x < 0 \/ y < 0 \/ w < 1 \/ h < 1 THEN Outcome(<<>>, "ValueError")
    ELSE Outcome(_prepare(x, y, x + w - 1, y + h - 1) \o <<SendData(image.v)>>, "")

-----------------------------------------------------------------------------
(* Text rasterizer.  Text is a sequence of character codes, a font a       *)
(* sequence of bytes; the attributes the methods read and assign are       *)
(* passed as the record ta, the text area as the record da.                *)

OLED_TEXT_ALIGN_NONE == 0
OLED_TEXT_ALIGN_LEFT == 1
OLED_TEXT_ALIGN_RIGHT == 2
OLED_TEXT_ALIGN_CENTER == 3
OLED_TEXT_ALIGN == {0, 1, 2, 3, 16, 32, 48}

Ok(v) == [exc |-> "", v |-> v]
Raise(e) == [exc |-> e, v |-> 0]

\* seq[i] of Python: negative indexes count from the end
Item(seq, i) ==
    IF i >= 0 /\ i < Len(seq) THEN Ok(seq[i + 1])
    ELSE IF i < 0 /\ i >= -Len(seq) THEN Ok(seq[Len(seq) + i + 1])
    ELSE Raise("IndexError")

\* the assignments of _set_font made before the first one that raises;
\* the exception is caught and only printed
_set_font(ta, font, font_color) ==
    LET f2 == Item(font, 2)
        f3 == Item(font, 3)
        f4 == Item(font, 4)
        f5 == Item(font, 5)
        f6 == Item(font, 6)
        t0 == [ta EXCEPT !.font = Some(font)]
        t1 == [t0 EXCEPT !.first_char = Some(BitOr(f2.v, Shl(f3.v, 8)))]
        t2 == [t1 EXCEPT !.last_char = Some(BitOr(f4.v, Shl(f5.v, 8)))]
        t3 == [t2 EXCEPT !.font_height = Some(f6.v)]
        color == IF font_color = None THEN <<255, 255, 255>> ELSE Val(font_color).v
    IN  IF f2.exc # "" \/ f3.exc # "" THEN t0
        ELSE IF f4.exc # "" \/ f5.exc # "" THEN t1
        ELSE IF f6.exc # "" THEN t2
        ELSE [t3 EXCEPT !.font_color = Some(_set_color(color))]

_set_text_prop(ta, align, background) ==
    LET al == IF align \notin OLED_TEXT_ALIGN THEN OLED_TEXT_ALIGN_CENTER ELSE align
        bg == IF background = None THEN <<0, 0, 0>> ELSE Val(background).v
    IN  [ta EXCEPT !.align = Some(al), !.background = Some(_set_color(bg))]

\* index of the directory entry of character code c
GlyphIndex(ta, c) == 8 + Shl(c - Val(ta.first_char), 2)

RECURSIVE SumWidths(_, _, _)
SumWidths(ta, text, k) ==
    IF k > Len(text) THEN 0
    ELSE Item(Val(ta.font), GlyphIndex(ta, text[k])).v + 1 + SumWidths(ta, text, k + 1)

_get_text_width(ta, text) ==
    IF Len(text) = 0 THEN Ok(-1)
    ELSE IF ta.first_char = None THEN Raise("AttributeError")
    ELSE IF \E k \in 1..Len(text) : Item(Val(ta.font), GlyphIndex(ta, text[k])).exc # ""
         THEN Raise("IndexError")
    ELSE Ok(SumWidths(ta, text, 1) - 1)

\* the buffer of area pixels of the background color
_create_text_background(ta, da) ==
    LET area == da.width * da.height
        bg == Val(ta.background)
    IN  IF area < 0 THEN Raise("ValueError")
        ELSE Ok([i \in 1..(2 * area) |-> IF i % 2 = 1 THEN bg[1] ELSE bg[2]])

\* bit number n (0 is the least significant) of byte
Bit(byte, n) == Shr(byte, n) % 2

GlyphResult(exc, buf, c_width) == [exc |-> exc, c_buf |-> buf, c_width |-> c_width]

\* a column-major unpacking: one font byte per column of font_height
\* pixels, lowest bit first, the bit of a pixel being its row
GlyphFill_column_major(font, c_width, offset, font_height, fg, bg) ==
    LET area == font_height * c_width
        bad == {q \in 0..(c_width - 1) : Item(font, offset + q).exc # ""}
        pixel(cnt) ==
            IF Bit(Item(font, offset + (cnt % c_width)).v, cnt \div c_width) # 0
            THEN fg ELSE bg
    IN  GlyphResult(IF bad = {} THEN "" ELSE "IndexError",
                    Some([i \in 1..(2 * area) |-> pixel((i - 1) \div 2)[((i - 1) % 2) + 1]]),
                    c_width)

\* the loop of _write_c_to_buf: one font byte per run of c_width pixels,
\* lowest bit first, font_height runs; when a read raises, the pixels of
\* the runs before it are written and the rest left 0
GlyphFill(font, c_width, offset, font_height, fg, bg) ==
    LET area == font_height * c_width
        runs == IF c_width = 0 THEN 0 ELSE font_height
        bad == {r \in 0..(runs - 1) : Item(font, offset + r).exc # ""}
        stop == IF bad = {} THEN runs ELSE CHOOSE r \in bad : \A q \in bad : r <= q
        pixel(cnt) ==
            IF cnt \div c_width >= stop THEN <<0, 0>>
            ELSE IF Bit(Item(font, offset + (cnt \div c_width)).v, cnt % c_width) # 0
                 THEN fg ELSE bg
    IN  GlyphResult(IF bad = {} THEN "" ELSE "IndexError",
                    Some([i \in 1..(2 * area) |-> pixel((i - 1) \div 2)[((i - 1) % 2) + 1]]),
                    c_width)

\* the directory entry read by _write_c_to_buf: width, 3-byte offset
GlyphEntry(ta, font, cw, o1, o2, o3) ==
    IF cw.exc # "" \/ o1.exc # "" \/ o2.exc # "" \/ o3.exc # ""
    THEN GlyphResult("IndexError", None, 0)
    ELSE IF ta.font_height = None THEN GlyphResult("AttributeError", None, 0)
    \* font_color is assigned by every _set_font that assigns font_height
    ELSE GlyphFill(font, cw.v, BitOr(BitOr(o1.v, Shl(o2.v, 8)), Shl(o3.v, 16)),
                   Val(ta.font_height), Val(ta.font_color), Val(ta.background))

GlyphAt(ta, font, idx) ==
    GlyphEntry(ta, font, Item(font, idx), Item(font, idx + 1),
               Item(font, idx + 2), Item(font, idx + 3))

\* the glyph buffer _write_c_to_buf leaves in c_buf (None when it raises
\* before assigning it), the width it returns, the exception it raises
_write_c_to_buf(ta, c) ==
    IF ta.first_char = None THEN GlyphResult("AttributeError", None, 0)
    ELSE GlyphAt(ta, Val(ta.font), GlyphIndex(ta, c))

AddTextResult(exc, da, cb) == [exc |-> exc, da |-> da, c_buf |-> cb]

\* the first turn of the loop of _add_text over the characters: the glyph
\* is written to c_buf, then _add_char_to_dynamic_area, which takes
\* (idx, c_width, c_height), is called with (idx, c_width)
AddFirstChar(da, cb, x, ch) ==
    IF ch.exc # "" THEN AddTextResult(ch.exc, da, IF ch.c_buf = None THEN cb ELSE ch.c_buf)
    ELSE IF x = None THEN AddTextResult("UnboundLocalError", da, ch.c_buf)
    ELSE AddTextResult("TypeError", da, ch.c_buf)

\* _add_text from _create_text_background on, x being the start offset
AddTextFill(ta, da, cb, text, x, bk) ==
    IF bk.exc # "" THEN AddTextResult(bk.exc, da, cb)
    ELSE IF Len(text) = 0 THEN AddTextResult("", [da EXCEPT !.buffer = Some(bk.v)], cb)
    ELSE AddFirstChar([da EXCEPT !.buffer = Some(bk.v)], cb, x, _write_c_to_buf(ta, text[1]))

\* the start offset _add_text computes from the alignment (None: unbound)
StartX(al, boxWidth, t_width) ==
    IF al = OLED_TEXT_ALIGN_LEFT THEN Some(0)
    ELSE IF al = OLED_TEXT_ALIGN_RIGHT THEN Some(boxWidth - t_width)
    ELSE IF al = OLED_TEXT_ALIGN_CENTER THEN Some((boxWidth - t_width) \div 2)
    ELSE IF al = OLED_TEXT_ALIGN_NONE THEN Some(0)
    ELSE None

\* _add_text once the area has its size
AddTextSized(ta, da, cb, text, t_width) ==
    AddTextFill(ta, da, cb, text, StartX(Val(ta.align), da.width, t_width),
                _create_text_background(ta, da))

\* _add_text once the text width is known: the area grows to the text
AddTextMeasured(ta, da, cb, text, tw) ==
    IF tw.exc # "" THEN AddTextResult(tw.exc, da, cb)
    ELSE IF ta.font_height = None
         \* width is assigned before the read of font_height raises
         THEN AddTextResult("AttributeError",
                            IF da.width < tw.v THEN [da EXCEPT !.width = tw.v] ELSE da, cb)
    ELSE IF da.width < tw.v \/ da.height < Val(ta.font_height)
         THEN AddTextSized(ta, [da EXCEPT !.width = tw.v, !.height = Val(ta.font_height)],
                           cb, text, tw.v)
    ELSE AddTextSized(ta, da, cb, text, tw.v)

\* _add_text on the area da: the exception raised, the area and c_buf left
_add_text(ta, da, cb, text) ==
    AddTextMeasured(ta, da, cb, text, _get_text_width(ta, text))

TextResult(prog, exc, ta, da, cb) ==
    [prog |-> prog, exc |-> exc, ta |-> ta, da |-> da, c_buf |-> cb]

\* the end of draw_text: window and one transfer of the area's buffer
DrawTextSend(ta, at) ==
    IF at.exc # "" THEN TextResult(<<>>, at.exc, ta, at.da, at.c_buf)
    ELSE TextResult(_prepare(at.da.x, at.da.y, at.da.x + at.da.width - 1,
                             at.da.y + at.da.height - 1)
                      \o <<SendData(Val(at.da.buffer))>>,
                    "", ta, at.da, at.c_buf)

\* draw_text once the box size is settled
DrawTextSized(text, x, y, ta, wr, hr) ==
    IF wr.exc # "" THEN TextResult(<<>>, wr.exc, ta, dynamic_area, c_buf)
    ELSE IF hr.exc # "" THEN TextResult(<<>>, hr.exc, ta, dynamic_area, c_buf)
    ELSE DrawTextSend(ta, _add_text(ta, [dynamic_area EXCEPT !.x = x, !.y = y,
                                                             !.width = wr.v, !.height = hr.v],
                                    c_buf, text))

\* draw_text once font and text properties are set
DrawTextLaidOut(text, x, y, w, h, ta) ==
    DrawTextSized(text, x, y, ta,
                  IF w = None THEN _get_text_width(ta, text) ELSE Ok(Val(w)),
                  IF h # None THEN Ok(Val(h))
                  ELSE IF ta.font_height = None THEN Raise("AttributeError")
                  ELSE Ok(Val(ta.font_height)))

\* draw_text: the bus steps, the exception, and the attributes it leaves
draw_text(text, x, y, w, h, font_text, font_color, align, background) ==
    IF \/ x > width \/ y > height
       \/ x < 0 \/ y < 0
       \/ (w # None /\ Val(w) < 1) \/ (h # None /\ Val(h) < 1)
       \/ (font_color # None /\ Val(font_color).type # "PLIST")
       \/ (background # None /\ Val(background).type # "PLIST")
    THEN TextResult(<<>>, "ValueError", textattr, dynamic_area, c_buf)
    ELSE DrawTextLaidOut(text, x, y, w, h,
                         _set_text_prop(_set_font(textattr, font_text, font_color),
                                        align, background))

-----------------------------------------------------------------------------
(* The inputs explored.                                                    *)

Red == PList(<<255, 0, 0>>)
NotAList == PTuple(<<255, 0, 0>>)
Colors == {Red, NotAList}

\* origins along an axis of the given extent: before, at and after both edges
Origins(extent) == {-1, 0} \cup ((extent - 1)..(extent + MaxOver))
\* sizes along an axis: none, small, up to and past the extent
Sizes(extent) == (0..MaxSmall) \cup (extent..(extent + MaxOver))
\* a length whose window end no longer fits in one byte
Lengths == Sizes(width) \cup {256}

\* rectangles: every case along one axis with the other axis at its
\* simplest, and the cases where both axes are at or past the far corner
RectArgs ==
    { a \in [x : Origins(width), y : Origins(height), w : Sizes(width), h : Sizes(height)] :
        \/ a.y = 0 /\ a.h = 1
        \/ a.x = 0 /\ a.w = 1
        \/ /\ a.x >= width - 1 /\ a.x - width = a.y - height
           /\ a.w - width = a.h - height }
\* the rectangles that differ from (0, 0, 1, 1) in at most one argument
BaseRect == [x |-> 0, y |-> 0, w |-> 1, h |-> 1]
FewRectArgs ==
    { a \in RectArgs :
        Cardinality({f \in {"x", "y", "w", "h"} : a[f] # BaseRect[f]}) <= 1 }
\* a rectangle whose right edge, offset, no longer fits in one byte
WideRect == [x |-> 0, y |-> 0, w |-> 256, h |-> 1]

\* lines: every case of origin and length along x, and every origin along y
LineArgs ==
    { a \in [x : Origins(width), y : Origins(height), lenght : Lengths] :
        a.y = 0 \/ (a.x = 0 /\ a.lenght = 1) }
FewLineArgs ==
    { a \in LineArgs :
        Cardinality({f \in {"x", "y"} : a[f] # 0} \cup {f \in {"lenght"} : a[f] # 1}) <= 1 }

PixelArgs == [x : Origins(width), y : Origins(height)]
FewPixelArgs == { a \in PixelArgs : a.x = 0 \/ a.y = 0 }

\* a font of two glyphs of height 2: "A" (code 65) of width 1, "B" of
\* width 2; header, then the directory at 8, then the bitmaps at 16
GoodFont ==
    << 0, 0, 65, 0, 66, 0, 2, 0,
       1, 16, 0, 0,
       2, 18, 0, 0,
       1, 0,
       3, 1 >>
\* a table too short to hold the header
ShortFont == << 0, 0, 65 >>

BaseText ==
    [text |-> <<>>, x |-> 0, y |-> 0, w |-> Some(2), h |-> Some(2), font |-> GoodFont,
     font_color |-> None, align |-> OLED_TEXT_ALIGN_CENTER, background |-> None]
\* an empty box, a text sized by its glyphs, and each kind of bad argument
FewTextArgs ==
    { BaseText,
      [BaseText EXCEPT !.text = <<65>>, !.w = None, !.h = None],
      [BaseText EXCEPT !.x = -1],
      [BaseText EXCEPT !.y = -1],
      [BaseText EXCEPT !.x = width + MaxOver],
      [BaseText EXCEPT !.y = height + MaxOver],
      [BaseText EXCEPT !.w = Some(0)],
      [BaseText EXCEPT !.h = Some(0)],
      [BaseText EXCEPT !.font_color = Some(NotAList)],
      [BaseText EXCEPT !.background = Some(NotAList)] }

Image == PByteArray(<<1, 2, 3, 4, 5, 6, 7, 8>>)
Images == {Image, PList(<<1, 2>>)}

-----------------------------------------------------------------------------
(* The public calls.                                                       *)

Call(op, args) == [op |-> op, args |-> args]

\* the call c asked for out: run its bus steps, record events and outcome
Finish(c, out) ==
    LET r == Run(out.prog)
    IN  /\ call' = c
        /\ trace' = r.ev
        /\ result' = IF r.exc # "" THEN r.exc ELSE out.exc
        /\ cs' = LastLevel(r.ev, {"select", "unselect"}, cs)

Assign(st) ==
    /\ rotation' = st.rotation
    /\ colstart' = st.colstart
    /\ rowstart' = st.rowstart
    /\ width' = st.width
    /\ height' = st.height

Init ==
    /\ rst = TRUE
    /\ backlight = TRUE
    /\ width = RotationState(1).width
    /\ height = RotationState(1).height
    /\ colstart = RotationState(1).colstart
    /\ rowstart = RotationState(1).rowstart
    /\ rotation = 1
    /\ s_buf = None
    /\ c_buf = None
    /\ dynamic_area = [x |-> 0, y |-> 0, width |-> 0, height |-> 0, buffer |-> None]
    /\ textattr = [font |-> None, first_char |-> None, last_char |-> None,
                   font_height |-> None, font_color |-> None,
                   align |-> None, background |-> None]
    /\ call = Call("__init__", <<>>)
    /\ result = ""
    /\ LET r == Run(set_backlight(0) \o set_backlight(1) \o reset)
       IN  /\ trace = r.ev
           /\ cs = LastLevel(r.ev, {"select", "unselect"}, 1)

\* a reset that leaves the rotation in force as it was
Call_reset_keeping_rotation ==
    /\ Finish(Call("reset", <<>>), Outcome(reset, ""))
    /\ UNCHANGED <<devstate, rst, backlight, s_buf, c_buf, dynamic_area, textattr>>

Call_reset ==
    /\ Finish(Call("reset", <<>>), Outcome(reset, ""))
    /\ Assign(RotationState(1))
    /\ UNCHANGED <<rst, backlight, s_buf, c_buf, dynamic_area, textattr>>

Call_set_rotation ==
    \E r \in (-1)..4 :
        /\ Finish(Call("set_rotation", <<r>>), set_rotation(r))
        /\ IF set_rotation(r).exc = ""
           THEN Assign(RotationState(r))
           ELSE UNCHANGED devstate
        /\ UNCHANGED <<rst, backlight, s_buf, c_buf, dynamic_area, textattr>>

Call_on ==
    /\ Finish(Call("on", <<>>), Outcome(<<Cmd(ST7735_DISPON)>>, ""))
    /\ UNCHANGED <<devstate, rst, backlight, s_buf, c_buf, dynamic_area, textattr>>

Call_off ==
    /\ Finish(Call("off", <<>>), Outcome(<<Cmd(ST7735_DISPOFF)>>, ""))
    /\ UNCHANGED <<devstate, rst, backlight, s_buf, c_buf, dynamic_area, textattr>>

Call_set_backlight ==
    \E state \in {0, 1} :
        /\ Finish(Call("set_backlight", <<state>>), Outcome(set_backlight(state), ""))
        /\ UNCHANGED <<devstate, rst, backlight, s_buf, c_buf, dynamic_area, textattr>>

Call_set_invert ==
    \E value \in {0, 1} :
        /\ Finish(Call("set_invert", <<value>>), Outcome(set_invert(value), ""))
        /\ UNCHANGED <<devstate, rst, backlight, s_buf, c_buf, dynamic_area, textattr>>

\* a clear that puts the panel back to its default rotation
Call_clear_rotating ==
    /\ Finish(Call("clear", <<>>), clear)
    /\ Assign(RotationState(1))
    /\ UNCHANGED <<rst, backlight, s_buf, c_buf, dynamic_area, textattr>>

Call_clear ==
    /\ Finish(Call("clear", <<>>), clear)
    /\ UNCHANGED <<devstate, rst, backlight, s_buf, c_buf, dynamic_area, textattr>>

Call_fill_screen ==
    \E color \in Colors :
        /\ Finish(Call("fill_screen", <<color>>), fill_screen(color))
        /\ UNCHANGED <<devstate, rst, backlight, s_buf, c_buf, dynamic_area, textattr>>

fill_rect_calls(args) ==
    \E a \in args, color \in Colors :
        /\ color = NotAList => a = BaseRect
        /\ Finish(Call("fill_rect", <<a.x, a.y, a.w, a.h, color>>),
                  fill_rect(a.x, a.y, a.w, a.h, color))
        /\ UNCHANGED <<devstate, rst, backlight, s_buf, c_buf, dynamic_area, textattr>>

draw_pixel_calls(args) ==
    \E a \in args, color \in Colors :
        /\ color = NotAList => a.x = 0 /\ a.y = 0
        /\ Finish(Call("draw_pixel", <<a.x, a.y, color>>), draw_pixel(a.x, a.y, color))
        /\ UNCHANGED <<devstate, rst, backlight, s_buf, c_buf, dynamic_area, textattr>>

draw_line_calls(args) ==
    \E a \in args, color \in Colors :
        /\ color = NotAList => a.x = 0 /\ a.y = 0 /\ a.lenght = 1
        /\ Finish(Call("draw_line", <<a.x, a.y, a.lenght, color>>),
                  draw_line(a.x, a.y, a.lenght, color))
        /\ UNCHANGED <<devstate, rst, backlight, s_buf, c_buf, dynamic_area, textattr>>

draw_img_calls(args) ==
    \E a \in args, image \in Images :
        /\ image # Image => a = BaseRect
        /\ Finish(Call("draw_img", <<image, a.x, a.y, a.w, a.h>>),
                  draw_img(image, a.x, a.y, a.w, a.h))
        /\ UNCHANGED <<devstate, rst, backlight, s_buf, c_buf, dynamic_area, textattr>>

TextFinish(c, out) ==
    /\ Finish(c, Outcome(out.prog, out.exc))
    /\ textattr' = out.ta
    /\ dynamic_area' = out.da
    /\ c_buf' = out.c_buf
    /\ UNCHANGED <<devstate, rst, backlight, s_buf>>

draw_text_calls(args) ==
    \E a \in args :
        TextFinish(Call("draw_text", <<a>>),
                   draw_text(a.text, a.x, a.y, a.w, a.h, a.font, a.font_color,
                             a.align, a.background))

Call_draw_text == draw_text_calls(FewTextArgs)
Call_fill_rect == fill_rect_calls(FewRectArgs)
Call_draw_pixel == draw_pixel_calls(FewPixelArgs)
Call_draw_line == draw_line_calls(FewLineArgs)
Call_draw_img == draw_img_calls(FewRectArgs \cup {WideRect})

Shapes_fill_rect == fill_rect_calls(RectArgs)
Shapes_draw_pixel == draw_pixel_calls(PixelArgs)
Shapes_draw_line == draw_line_calls(LineArgs)
Shapes_draw_img == draw_img_calls(RectArgs \cup {WideRect})

Next ==
    \/ Call_reset
    \/ Call_set_rotation
    \/ Call_on
    \/ Call_off
    \/ Call_set_backlight
    \/ Call_set_invert
    \/ Call_clear
    \/ Call_fill_screen
    \/ Call_fill_rect
    \/ Call_draw_pixel
    \/ Call_draw_line
    \/ Call_draw_img
    \/ Call_draw_text

Spec == Init /\ [][Next]_vars

\* the shape operations alone, on every argument case
NextShapes ==
    \/ Call_set_rotation
    \/ Call_clear
    \/ Call_fill_screen
    \/ Shapes_fill_rect
    \/ Shapes_draw_pixel
    \/ Shapes_draw_line
    \/ Shapes_draw_img

SpecShapes == Init /\ [][NextShapes]_vars

\* construction with or without a reset pin and a backlight pin
InitPins ==
    /\ rst \in BOOLEAN
    /\ backlight \in BOOLEAN
    /\ width = RotationState(1).width
    /\ height = RotationState(1).height
    /\ colstart = RotationState(1).colstart
    /\ rowstart = RotationState(1).rowstart
    /\ rotation = 1
    /\ s_buf = None
    /\ c_buf = None
    /\ dynamic_area = [x |-> 0, y |-> 0, width |-> 0, height |-> 0, buffer |-> None]
    /\ textattr = [font |-> None, first_char |-> None, last_char |-> None,
                   font_height |-> None, font_color |-> None,
                   align |-> None, background |-> None]
    /\ call = Call("__init__", <<>>)
    /\ result = ""
    /\ LET r == Run(set_backlight(0) \o set_backlight(1) \o reset)
       IN  /\ trace = r.ev
           /\ cs = LastLevel(r.ev, {"select", "unselect"}, 1)

\* the control operations, on every pin configuration
NextReset ==
    \/ Call_reset
    \/ Call_set_rotation
    \/ Call_on
    \/ Call_off
    \/ Call_set_backlight
    \/ Call_set_invert

SpecReset == InitPins /\ [][NextReset]_vars

\* channel values on both sides of the bits the encoding drops
Channels == {0, 3, 4, 7, 8, 255}
ColorArgs == {PList(<<r, g, b>>) : r \in Channels, g \in Channels, b \in Channels}

\* one pixel at the origin, in every color
Colors_draw_pixel ==
    \E color \in ColorArgs :
        /\ Finish(Call("draw_pixel", <<0, 0, color>>), draw_pixel(0, 0, color))
        /\ UNCHANGED <<devstate, rst, backlight, s_buf, c_buf, dynamic_area, textattr>>

NextColor == Colors_draw_pixel

SpecColor == Init /\ [][NextColor]_vars

\* the font of GoodFont laid out without a gap: the two bitmap bytes of "A"
\* and the two of "B" directly follow the directory
TightFont ==
    << 0, 0, 65, 0, 66, 0, 2, 0,
       1, 16, 0, 0,
       2, 18, 0, 0,
       1, 16,
       0, 0 >>

\* a font of the one glyph "A", 2 wide and 2 high, that is not its own
\* transpose: bitmap bytes 1 and 3
SlantFont ==
    << 0, 0, 65, 0, 65, 0, 2, 0,
       2, 12, 0, 0,
       1, 3 >>

\* a text in a box sized by its glyphs
AutoText(t) == [BaseText EXCEPT !.text = t, !.w = None, !.h = None]
\* "A" in a box larger than the glyph, with the given alignment
BoxedText(al) ==
    [BaseText EXCEPT !.text = <<65>>, !.w = Some(4), !.h = Some(4), !.align = al]

\* "A" in a box wider than the glyph and lower than the font
ShallowText == [BoxedText(OLED_TEXT_ALIGN_CENTER) EXCEPT !.h = Some(1)]

\* texts of no, one and two glyphs, characters just outside the font's
\* range, every alignment, a font table without its header, and a glyph
\* whose rows differ from its columns
TextArgs ==
    { BaseText,
      AutoText(<<>>), AutoText(<<65>>), AutoText(<<65, 66>>), AutoText(<<64>>),
      [AutoText(<<67>>) EXCEPT !.font = TightFont],
      [BaseText EXCEPT !.font = ShortFont],
      [AutoText(<<65>>) EXCEPT !.font = ShortFont],
      [AutoText(<<65>>) EXCEPT !.font = SlantFont] }
    \cup { BoxedText(al) : al \in {OLED_TEXT_ALIGN_NONE, OLED_TEXT_ALIGN_LEFT,
                                   OLED_TEXT_ALIGN_RIGHT, OLED_TEXT_ALIGN_CENTER} }
    \cup { ShallowText }

Text_draw_text == draw_text_calls(TextArgs)

\* the text calls, in every rotation
NextText ==
    \/ Call_set_rotation
    \/ Text_draw_text

SpecText == Init /\ [][NextText]_vars

-----------------------------------------------------------------------------
(* What the bus saw during the last call.                                  *)

DrawOps == {"clear", "fill_screen", "fill_rect", "draw_pixel", "draw_line",
            "draw_img", "draw_text"}

\* one SPI write as the panel receives it: the level of the data/command
\* line while it was clocked in, and its bytes
Xfer(dc, bytes) == [w |-> TRUE, dc |-> dc, bytes |-> bytes]
IsXfer(a) == a.w

\* the SPI writes of a run of events, in order
Transfers(tr) ==
    SelectSeq([k \in 1..Len(tr) |->
                 [w |-> tr[k].ev = "write",
                  dc |-> IF tr[k].ev = "write"
                         THEN LastLevel(SubSeq(tr, 1, k - 1), {"dc"}, -1)
                         ELSE -1,
                  bytes |-> tr[k].bytes]],
              IsXfer)

IsCommand(t, code) == t.dc = 0 /\ t.bytes = <<code>>
IsDataByte(t) == t.dc = 1 /\ Len(t.bytes) = 1
\* a pixel stream is the data transfer of more than one byte
IsStream(t) == t.dc = 1 /\ Len(t.bytes) > 1

\* transfers j..j+10 of X are a complete window setup: column command and
\* four data bytes, row command and four data bytes, memory write
IsWindow(X, j) ==
    /\ j >= 1 /\ j + 10 <= Len(X)
    /\ IsCommand(X[j], ST7735_CASET)
    /\ \A i \in 1..4 : IsDataByte(X[j + i])
    /\ IsCommand(X[j + 5], ST7735_RASET)
    /\ \A i \in 6..9 : IsDataByte(X[j + i])
    /\ IsCommand(X[j + 10], ST7735_RAMWR)

\* the panel coordinates that window setup carries, panel offsets removed
WindowAt(X, j) ==
    [x0 |-> X[j + 1].bytes[1] * 256 + X[j + 2].bytes[1] - colstart,
     x1 |-> X[j + 3].bytes[1] * 256 + X[j + 4].bytes[1] - colstart,
     y0 |-> X[j + 6].bytes[1] * 256 + X[j + 7].bytes[1] - rowstart,
     y1 |-> X[j + 8].bytes[1] * 256 + X[j + 9].bytes[1] - rowstart]

\* the transfers that set the window (x0, y0)-(x1, y1) on the panel
WindowBytes(x0, y0, x1, y1) ==
    LET hi(v) == Xfer(1, <<v \div 256>>)
        lo(v) == Xfer(1, <<v % 256>>)
    IN  << Xfer(0, <<ST7735_CASET>>),
           hi(x0 + colstart), lo(x0 + colstart), hi(x1 + colstart), lo(x1 + colstart),
           Xfer(0, <<ST7735_RASET>>),
           hi(y0 + rowstart), lo(y0 + rowstart), hi(y1 + rowstart), lo(y1 + rowstart),
           Xfer(0, <<ST7735_RAMWR>>) >>

\* n repetitions of a two-byte pixel code
Pixels(n, code) == [i \in 1..(2 * n) |-> code[2 - (i % 2)]]

Min(a, b) == IF a < b THEN a ELSE b

\* every write sits alone between a select and an unselect, right after the
\* data/command line is set
Bracketed(tr) ==
    /\ \A k \in 1..Len(tr) :
         tr[k].ev = "write" =>
           /\ k >= 3 /\ k < Len(tr)
           /\ tr[k - 2].ev = "select"
           /\ tr[k - 1].ev = "dc"
           /\ tr[k + 1].ev = "unselect"
    /\ \A k \in 1..Len(tr) :
         tr[k].ev = "select" =>
           /\ k + 3 <= Len(tr)
           /\ tr[k + 3].ev = "unselect"
    /\ \A k \in 1..Len(tr) :
         tr[k].ev = "unselect" => k >= 4 /\ tr[k - 3].ev = "select"

-----------------------------------------------------------------------------
(* The properties checked.                                                 *)

\* C1: every address window a drawing operation sets lies within the panel
\* in logical coordinates: 0 <= x0 <= x1 < width and 0 <= y0 <= y1 < height
C1_WindowInBounds ==
    call.op \in DrawOps =>
      LET X == Transfers(trace)
      IN  \A j \in 1..Len(X) :
            IsWindow(X, j) =>
              LET wd == WindowAt(X, j)
              IN  /\ 0 <= wd.x0 /\ wd.x0 <= wd.x1 /\ wd.x1 < width
                  /\ 0 <= wd.y0 /\ wd.y0 <= wd.y1 /\ wd.y1 < height

\* C2: within an operation a pixel stream (a data transfer of more than one
\* byte) comes only right after a complete window setup: column command and
\* its four bytes, row command and its four bytes, then memory write, with
\* nothing between the memory write and the stream
C2_StreamFollowsWindow ==
    LET X == Transfers(trace)
    IN  \A j \in 1..Len(X) : IsStream(X[j]) => IsWindow(X, j - 11)

C2_TextStreamSent ==
    /\ call.op = "draw_text" /\ result = ""
    /\ LET X == Transfers(trace)
       IN  Len(X) = 12 /\ IsStream(X[12])

\* C3: every write happens between a select and the matching unselect, which
\* alternate; a write with the data/command line low carries one byte; and
\* after every public operation chip-select is released
C3_ChipSelectReleased ==
    /\ Bracketed(trace)
    /\ \A k \in 1..Len(trace) :
         (trace[k].ev = "write" /\ trace[k - 1].v = 0) => Len(trace[k].bytes) = 1
    /\ cs = 1

\* the invalid arguments of a drawing call c on a panel of extent wd x ht
InvalidArgument(c, wd, ht) ==
    CASE c.op = "fill_screen" -> c.args[1].type # "PLIST"
      [] c.op = "fill_rect" ->
           \/ c.args[1] < 0 \/ c.args[2] < 0
           \/ c.args[1] > wd \/ c.args[2] > ht
           \/ c.args[3] < 1 \/ c.args[4] < 1
           \/ c.args[5].type # "PLIST"
      [] c.op = "draw_pixel" ->
           \/ c.args[1] < 0 \/ c.args[2] < 0
           \/ c.args[1] > wd \/ c.args[2] > ht
           \/ c.args[3].type # "PLIST"
      [] c.op = "draw_line" ->
           \/ c.args[1] < 0 \/ c.args[2] < 0
           \/ c.args[1] > wd \/ c.args[2] > ht
           \/ c.args[3] < 1
           \/ c.args[4].type # "PLIST"
      [] c.op = "draw_img" ->
           \/ c.args[1].type # "PBYTEARRAY"
           \/ c.args[2] < 0 \/ c.args[3] < 0
           \/ c.args[2] > wd \/ c.args[3] > ht
           \/ c.args[4] < 1 \/ c.args[5] < 1
      [] c.op = "draw_text" ->
           LET a == c.args[1]
           IN  \/ a.x < 0 \/ a.y < 0
               \/ a.x > wd \/ a.y > ht
               \/ (a.w # None /\ Val(a.w) < 1) \/ (a.h # None /\ Val(a.h) < 1)
               \/ (a.font_color # None /\ Val(a.font_color).type # "PLIST")
               \/ (a.background # None /\ Val(a.background).type # "PLIST")
      [] OTHER -> FALSE

\* C4: a drawing call with an invalid argument fails before any chip-select,
\* data/command or SPI activity, and leaves width, height, colstart, rowstart
\* and rotation unchanged
C4_InvalidArgumentBeforeBus ==
    [][InvalidArgument(call', width, height) =>
         /\ result' = "ValueError"
         /\ trace' = <<>>
         /\ cs' = cs
         /\ devstate' = devstate]_vars

C4_ImageRejected ==
    /\ call.op = "draw_img" /\ call.args[1].type # "PBYTEARRAY"
    /\ result = "ValueError" /\ trace = <<>>
    /\ rotation = 2

\* C5: the panel state is always one of the four fixed tuples, (160, 80)
\* with offsets (1, 26) for odd rotations and (80, 160) with offsets (26, 1)
\* for even ones; set_rotation(r) for r in 0..3 sends the rotation-control
\* command and exactly one data byte and leaves the state at tuple r
C5_RotationTuples ==
    /\ rotation \in {0, 1, 2, 3}
    /\ rotation % 2 = 1 => <<width, height, colstart, rowstart>> = <<160, 80, 1, 26>>
    /\ rotation % 2 = 0 => <<width, height, colstart, rowstart>> = <<80, 160, 26, 1>>
    /\ (call.op = "set_rotation" /\ call.args[1] \in {0, 1, 2, 3}) =>
         /\ result = ""
         /\ rotation = call.args[1]
         /\ LET X == Transfers(trace)
            IN  Len(X) = 2 /\ IsCommand(X[1], ST7735_MADCTL) /\ IsDataByte(X[2])

C5_RotatedToThree ==
    /\ call.op = "set_rotation" /\ call.args[1] = 3
    /\ rotation = 3 /\ width = 160 /\ colstart = 1

\* C6: set_rotation(r) with r outside 0..3 fails with ValueError, sends
\* nothing, and leaves rotation, width, height, colstart and rowstart as
\* they were
C6_BadRotationRejected ==
    [][(call'.op = "set_rotation" /\ call'.args[1] \notin {0, 1, 2, 3}) =>
         /\ result' = "ValueError"
         /\ trace' = <<>>
         /\ devstate' = devstate]_vars

C6_BadRotationSeen ==
    /\ call.op = "set_rotation" /\ call.args[1] = 4
    /\ result = "ValueError"
    /\ rotation = 2

\* C7: fill_rect with 0 <= x <= width, 0 <= y <= height, w >= 1, h >= 1
\* clamps an origin on the boundary to the last pixel, truncates w and h at
\* the far edges, sets the window (x, y)-(x+w'-1, y+h'-1) and sends one
\* stream of w'*h' repetitions of the two-byte color code
C7_FillRectTruncated ==
    ( /\ call.op = "fill_rect"
      /\ 0 <= call.args[1] /\ call.args[1] <= width
      /\ 0 <= call.args[2] /\ call.args[2] <= height
      /\ call.args[3] >= 1 /\ call.args[4] >= 1
      /\ call.args[5].type = "PLIST" ) =>
        LET xc == Min(call.args[1], width - 1)
            yc == Min(call.args[2], height - 1)
            wc == Min(call.args[3], width - xc)
            hc == Min(call.args[4], height - yc)
        IN  /\ result = ""
            /\ Transfers(trace) =
                 WindowBytes(xc, yc, xc + wc - 1, yc + hc - 1)
                   \o <<Xfer(1, Pixels(wc * hc, _set_color(call.args[5].v)))>>

C7_CornerRectSeen ==
    /\ call.op = "fill_rect" /\ result = ""
    /\ call.args[1] = width /\ call.args[2] = height
    /\ call.args[3] > 1 /\ call.args[4] > 1

\* C8: fill_screen(color) sets one window covering (0, 0)-(width-1,
\* height-1), offset by colstart/rowstart, and sends one stream of
\* width*height repetitions of the color code; in rotation 0 with
\* [255, 0, 0] that is columns 26..105, rows 1..160 and 80*160 repetitions
\* of 0xF8, 0x00; clear() is the same with [0, 0, 0]
C8_FillScreenWindow ==
    /\ (call.op = "fill_screen" /\ call.args[1].type = "PLIST") =>
         /\ result = ""
         /\ Transfers(trace) =
              WindowBytes(0, 0, width - 1, height - 1)
                \o <<Xfer(1, Pixels(width * height, _set_color(call.args[1].v)))>>
    /\ call.op = "clear" =>
         /\ result = ""
         /\ Transfers(trace) =
              WindowBytes(0, 0, width - 1, height - 1)
                \o <<Xfer(1, Pixels(width * height, <<0, 0>>))>>
    /\ (call.op = "fill_screen" /\ call.args[1] = PList(<<255, 0, 0>>) /\ rotation = 0) =>
         Transfers(trace) =
           << Xfer(0, <<42>>), Xfer(1, <<0>>), Xfer(1, <<26>>), Xfer(1, <<0>>), Xfer(1, <<105>>),
              Xfer(0, <<43>>), Xfer(1, <<0>>), Xfer(1, <<1>>), Xfer(1, <<0>>), Xfer(1, <<160>>),
              Xfer(0, <<44>>),
              Xfer(1, [i \in 1..(2 * 80 * 160) |-> IF i % 2 = 1 THEN 248 ELSE 0]) >>

C8_RedScreenSeen ==
    /\ call.op = "fill_screen" /\ call.args[1] = PList(<<255, 0, 0>>)
    /\ rotation = 0 /\ result = ""

\* C9: an accepted draw_pixel(x, y, color) sets a window whose start and end
\* are both the clamped pixel, and sends one transfer of the two bytes of
\* the color code
C9_PixelWindow ==
    (call.op = "draw_pixel" /\ result = "") =>
      LET xc == Min(call.args[1], width - 1)
          yc == Min(call.args[2], height - 1)
      IN  Transfers(trace) =
            WindowBytes(xc, yc, xc, yc) \o <<Xfer(1, _set_color(call.args[3].v))>>

\* the origin and the sizes of a shape call
ShapeOrigin(c) == <<c.args[1], c.args[2]>>
ShapeSizes(c) ==
    CASE c.op = "fill_rect" -> {c.args[3], c.args[4]}
      [] c.op = "draw_line" -> {c.args[3]}
      [] OTHER -> {}
ShapeColor(c) == c.args[Len(c.args)]

\* C10: fill_rect, draw_pixel and draw_line share one edge policy: an origin
\* on the far edge is clamped to the last pixel and the call succeeds; an
\* origin past the edge, a negative origin or a size below 1 fails with
\* ValueError; on the 80-wide panel draw_pixel(80, 0, c) is clamped to 79
\* and succeeds and draw_pixel(81, 0, c) fails
C10_EdgePolicy ==
    (call.op \in {"fill_rect", "draw_pixel", "draw_line"}
       /\ ShapeColor(call).type = "PLIST") =>
      LET x == ShapeOrigin(call)[1]
          y == ShapeOrigin(call)[2]
          rejected == \/ x < 0 \/ y < 0 \/ x > width \/ y > height
                      \/ \E n \in ShapeSizes(call) : n < 1
          X == Transfers(trace)
      IN  /\ rejected => (result = "ValueError" /\ trace = <<>>)
          /\ (~rejected /\ (x = width \/ y = height)) =>
               /\ result = ""
               /\ IsWindow(X, 1)
               /\ WindowAt(X, 1).x0 = Min(x, width - 1)
               /\ WindowAt(X, 1).y0 = Min(y, height - 1)
          /\ (call.op = "draw_pixel" /\ width = 80 /\ x = 80 /\ y = 0) =>
               (result = "" /\ IsWindow(X, 1) /\ WindowAt(X, 1).x0 = 79)
          /\ (call.op = "draw_pixel" /\ width = 80 /\ x = 81 /\ y = 0) =>
               result = "ValueError"

\* C11: an accepted draw_line(x, y, length, color) sets the window
\* (x, y)-(x+n-1, y) and streams n repetitions of the color code, n being
\* the length truncated at the right edge
C11_LineTruncated ==
    (call.op = "draw_line" /\ ~InvalidArgument(call, width, height)) =>
      LET xc == Min(call.args[1], width - 1)
          yc == Min(call.args[2], height - 1)
          n == Min(call.args[3], width - xc)
      IN  /\ result = ""
          /\ Transfers(trace) =
               WindowBytes(xc, yc, xc + n - 1, yc)
                 \o <<Xfer(1, Pixels(n, _set_color(call.args[4].v)))>>

\* C12: draw_img rejects, before any transfer, every region not entirely
\* inside the panel (no clamping at x == width or y == height, no
\* truncation); otherwise it sets the window (x, y)-(x+w-1, y+h-1) and
\* sends the caller's buffer unchanged as one transfer
C12_ImageInsidePanel ==
    (call.op = "draw_img" /\ call.args[1].type = "PBYTEARRAY"
       /\ call.args[4] >= 1 /\ call.args[5] >= 1) =>
      LET x == call.args[2]
          y == call.args[3]
          w == call.args[4]
          h == call.args[5]
      IN  IF 0 <= x /\ x + w <= width /\ 0 <= y /\ y + h <= height
          THEN /\ result = ""
               /\ Transfers(trace) =
                    WindowBytes(x, y, x + w - 1, y + h - 1) \o <<Xfer(1, call.args[1].v)>>
          ELSE result = "ValueError" /\ trace = <<>>

IsCommandByte(t) == t.dc = 0
IsResetPin(e) == e.ev = "rst"

\* C13: reset (and construction) drives a configured reset pin low, then
\* high, before the first SPI command and touches no reset pin when none is
\* configured; its commands begin with software reset and sleep-out and end
\* with normal-display-on and display-on
C13_ResetSequence ==
    call.op \in {"reset", "__init__"} =>
      LET X == Transfers(trace)
          cmds == SelectSeq(X, IsCommandByte)
          n == Len(cmds)
      IN  /\ result = ""
          /\ SelectSeq(trace, IsResetPin) =
               (IF rst THEN <<Ev("rst", 0, <<>>), Ev("rst", 1, <<>>)>> ELSE <<>>)
          /\ \A k \in 1..Len(trace) :
               IsResetPin(trace[k]) =>
                 \A j \in 1..k : trace[j].ev \notin {"select", "dc", "write"}
          /\ n >= 4
          /\ cmds[1].bytes = <<ST7735_SWRESET>>
          /\ cmds[2].bytes = <<ST7735_SLPOUT>>
          /\ cmds[n - 1].bytes = <<ST7735_NORON>>
          /\ cmds[n].bytes = <<ST7735_DISPON>>
          /\ X[Len(X)] = cmds[n]

C13_ResetPulsed ==
    /\ call.op = "reset" /\ rst /\ result = ""
    /\ trace[1] = Ev("rst", 0, <<>>) /\ trace[2] = Ev("rst", 1, <<>>)

\* C14: a color (r, g, b) is sent as the high then the low byte of
\* (r>>3)<<11 | (g>>2)<<5 | (b>>3); decoding the 16 bits gives back the top
\* 5/6/5 bits of r/g/b, encoding the decoded color gives the same two bytes,
\* and [255, 0, 0] is sent as 0xF8, 0x00
C14_ColorEncoding ==
    (call.op = "draw_pixel" /\ result = "") =>
      LET r == call.args[3].v[1]
          g == call.args[3].v[2]
          b == call.args[3].v[3]
          X == Transfers(trace)
          sent == X[Len(X)].bytes
          v == sent[1] * 256 + sent[2]
          r5 == v \div 2048
          g6 == (v \div 32) % 64
          b5 == v % 32
      IN  /\ Len(sent) = 2
          /\ sent[1] \in 0..255 /\ sent[2] \in 0..255
          /\ v = (r \div 8) * 2048 + (g \div 4) * 32 + (b \div 8)
          /\ r5 = r \div 8 /\ g6 = g \div 4 /\ b5 = b \div 8
          /\ _set_color(<<r5 * 8, g6 * 4, b5 * 8>>) = sent
          /\ call.args[3].v = <<255, 0, 0>> => sent = <<248, 0>>

C14_LowBitsDropped ==
    /\ call.op = "draw_pixel" /\ result = ""
    /\ call.args[3].v = <<7, 3, 255>>
    /\ Transfers(trace)[12].bytes = <<0, 31>>

\* what a font table declares: first and last character code, glyph
\* height, and the width of the glyph of character code c
FontFirst(font) == font[3] + 256 * font[4]
FontLast(font) == font[5] + 256 * font[6]
FontHeight(font) == font[7]
FontWidth(font, c) == font[8 + 4 * (c - FontFirst(font)) + 1]
InFont(font, text) ==
    \A k \in 1..Len(text) : FontFirst(font) <= text[k] /\ text[k] <= FontLast(font)

\* the sum of the glyph widths of the characters k.. of text
RECURSIVE GlyphWidths(_, _, _)
GlyphWidths(font, text, k) ==
    IF k > Len(text) THEN 0
    ELSE FontWidth(font, text[k]) + GlyphWidths(font, text, k + 1)

\* glyph widths plus one pixel between consecutive characters
SpacedWidth(font, text) ==
    IF Len(text) = 0 THEN 0 ELSE GlyphWidths(font, text, 1) + Len(text) - 1

\* a draw_text call whose coordinates, sizes and colors are accepted and
\* whose font table has its header and directory
TextCallOn(c, fonts) ==
    /\ c.op = "draw_text"
    /\ ~InvalidArgument(c, width, height)
    /\ c.args[1].font \in fonts

\* C15: the width measured for a text is the sum of its glyph widths plus
\* one pixel between consecutive characters: 0 for the empty text, width(A)
\* for "A", width(A)+width(B)+1 for "AB"; draw_text without w stores the
\* measured width as the width of its area
C15_TextWidth ==
    (TextCallOn(call, {GoodFont}) /\ call.args[1].w = None
       /\ InFont(GoodFont, call.args[1].text)) =>
      dynamic_area.width = SpacedWidth(GoodFont, call.args[1].text)

\* C16: draw_text of a non-empty text of characters of the font, without w
\* and h, succeeds, sets the one window (x, y)-(x+W-1, y+H-1) for the
\* measured width W and the glyph height H, and streams W*H*2 bytes once
C16_AutoSizedText ==
    (TextCallOn(call, {GoodFont}) /\ call.args[1].w = None /\ call.args[1].h = None
       /\ Len(call.args[1].text) > 0 /\ InFont(GoodFont, call.args[1].text)) =>
      LET a == call.args[1]
          W == SpacedWidth(GoodFont, a.text)
          H == FontHeight(GoodFont)
          X == Transfers(trace)
      IN  /\ result = ""
          /\ Len(X) = 12
          /\ SubSeq(X, 1, 11) = WindowBytes(a.x, a.y, a.x + W - 1, a.y + H - 1)
          /\ X[12].dc = 1 /\ Len(X[12].bytes) = W * H * 2

\* the box-relative start column the alignment asks for
AlignedStart(al, boxWidth, textWidth) ==
    IF al = OLED_TEXT_ALIGN_RIGHT THEN boxWidth - textWidth
    ELSE IF al = OLED_TEXT_ALIGN_CENTER THEN (boxWidth - textWidth) \div 2
    ELSE 0

\* C17: in the streamed box the text starts at column 0 for left and none,
\* boxWidth - textWidth for right, (boxWidth - textWidth)/2 for center, and
\* at row (boxHeight - glyphHeight)/2: the top-left pixel of "A" is there,
\* and no pixel outside the text's rectangle has the font color
C17_AlignedText ==
    (TextCallOn(call, {GoodFont}) /\ call.args[1].text = <<65>>
       /\ call.args[1].w # None /\ call.args[1].h # None
       /\ Val(call.args[1].w) >= SpacedWidth(GoodFont, <<65>>)
       /\ Val(call.args[1].h) >= FontHeight(GoodFont)) =>
      LET a == call.args[1]
          W == Val(a.w)
          H == Val(a.h)
          tw == SpacedWidth(GoodFont, a.text)
          x0 == AlignedStart(a.align, W, tw)
          y0 == (H - FontHeight(GoodFont)) \div 2
          X == Transfers(trace)
          B == X[Len(X)].bytes
          pixel(col, row) == <<B[2 * (row * W + col) + 1], B[2 * (row * W + col) + 2]>>
      IN  /\ result = ""
          /\ Len(X) = 12 /\ Len(B) = W * H * 2
          /\ pixel(x0, y0) = <<255, 255>>
          /\ \A col \in 0..(W - 1), row \in 0..(H - 1) :
               pixel(col, row) = <<255, 255>> =>
                 /\ x0 <= col /\ col < x0 + tw
                 /\ y0 <= row /\ row < y0 + FontHeight(GoodFont)

\* C18: draw_text of a text with a character outside the font's range
\* fails with the error of the glyph lookup before any transfer
C18_GlyphOutOfRange ==
    (TextCallOn(call, {GoodFont, TightFont})
       /\ ~InFont(call.args[1].font, call.args[1].text)) =>
      result = "IndexError" /\ trace = <<>>

\* C19: draw_text with a font table too short for its header fails, the
\* error reaches the caller, and nothing is transferred
C19_MalformedFont ==
    TextCallOn(call, {ShortFont}) => (result # "" /\ trace = <<>>)

\* the logical bounds <<x0, y0, x1, y1>> the accepted drawing call c hands
\* to _prepare
HandedWindow(c) ==
    CASE c.op \in {"clear", "fill_screen"} -> <<0, 0, width - 1, height - 1>>
      [] c.op = "fill_rect" ->
           LET xc == Min(c.args[1], width - 1)
               yc == Min(c.args[2], height - 1)
           IN  <<xc, yc, xc + Min(c.args[3], width - xc) - 1,
                 yc + Min(c.args[4], height - yc) - 1>>
      [] c.op = "draw_pixel" ->
           <<Min(c.args[1], width - 1), Min(c.args[2], height - 1), 1, 1>>
      [] c.op = "draw_line" ->
           <<Min(c.args[1], width - 1), Min(c.args[2], height - 1),
             Min(c.args[1], width - 1) + c.args[3] - 1, Min(c.args[2], height - 1)>>
      [] c.op = "draw_img" ->
           <<c.args[2], c.args[3], c.args[2] + c.args[4] - 1, c.args[3] + c.args[5] - 1>>
      [] c.op = "draw_text" ->
           <<dynamic_area.x, dynamic_area.y, dynamic_area.x + dynamic_area.width - 1,
             dynamic_area.y + dynamic_area.height - 1>>

\* C20: for the bounds an accepted drawing call hands to the window setup,
\* the bus carries the column command, the bytes hi, lo of x0+colstart and
\* of x1+colstart, the row command, the bytes hi, lo of y0+rowstart and of
\* y1+rowstart, then the memory write; each of the eight bytes is in 0..255
\* and each pair is the offset bound
C20_WindowBytes ==
    (call.op \in DrawOps /\ ~InvalidArgument(call, width, height)
       /\ (call.op = "draw_text" => result = "")) =>
      LET hw == HandedWindow(call)
          X == Transfers(trace)
      IN  /\ Len(X) >= 11
          /\ SubSeq(X, 1, 11) = WindowBytes(hw[1], hw[2], hw[3], hw[4])

\* byte k (from 0) of the bitmap of character c in the font table
FontOffset(font, c) ==
    LET idx == 8 + 4 * (c - FontFirst(font))
    IN  font[idx + 2] + 256 * font[idx + 3] + 65536 * font[idx + 4]
FontBitmapByte(font, c, k) == font[FontOffset(font, c) + k + 1]

\* the 2-byte color at (row, col) of a glyph buffer of the given width
GlyphPixel(buf, c_width, row, col) ==
    <<buf[2 * (row * c_width + col) + 1], buf[2 * (row * c_width + col) + 2]>>

\* a draw_text call that unpacked the glyph of its first character
GlyphCall(c) ==
    /\ TextCallOn(c, {GoodFont, TightFont, SlantFont})
    /\ Len(c.args[1].text) > 0
    /\ InFont(c.args[1].font, c.args[1].text)

\* the glyph buffer of the first character of the call holds, at each
\* (row, col), the default foreground <<255, 255>> where bit(row, col) is
\* set and the default background <<0, 0>> where it is clear
GlyphUnpackedAs(bit(_, _, _, _)) ==
    LET font == call.args[1].font
        c == call.args[1].text[1]
        cw == FontWidth(font, c)
        ht == FontHeight(font)
    IN  /\ c_buf # None
        /\ Len(Val(c_buf)) = 2 * cw * ht
        /\ \A row \in 0..(ht - 1), col \in 0..(cw - 1) :
             GlyphPixel(Val(c_buf), cw, row, col) =
               IF bit(font, c, row, col) = 1 THEN <<255, 255>> ELSE <<0, 0>>

\* bit row + col*height of the bitstream, a new byte every height bits:
\* bit row of the byte of column col
ColumnMajorBit(font, c, row, col) == Bit(FontBitmapByte(font, c, col), row)
\* bit col of the byte of row row
RowMajorBit(font, c, row, col) == Bit(FontBitmapByte(font, c, row), col)

\* C21 as stated: the glyph is unpacked column-major, the pixel at
\* (row, column) being bit row + column*height of the glyph's bitstream,
\* lowest bit of each byte first, a new byte every glyph-height bits; a set
\* bit gives the foreground color, a clear bit the background color
C21_GlyphColumnMajor ==
    GlyphCall(call) => GlyphUnpackedAs(ColumnMajorBit)

\* C21: the glyph is unpacked row-major into the glyph buffer: the pixel
\* at (row, column) is bit column, lowest first, of the byte of that row,
\* a new byte being fetched at the start of each row of glyph-width
\* pixels; a set bit gives the 2-byte foreground color, a clear bit the
\* 2-byte background color
C21_GlyphRowMajor ==
    GlyphCall(call) => GlyphUnpackedAs(RowMajorBit)

\* "A" of SlantFont, rows 1 0 and 1 1, in the glyph buffer
C21_SlantGlyphUnpacked ==
    /\ GlyphCall(call)
    /\ call.args[1].font = SlantFont
    /\ c_buf = Some(<<255, 255, 0, 0, 255, 255, 255, 255>>)

\* a draw_text call that got as far as sizing the text area
SizedCall(c) ==
    /\ TextCallOn(c, {GoodFont, TightFont, SlantFont})
    /\ InFont(c.args[1].font, c.args[1].text)

\* C22: within one draw_text call the text area only grows: its final
\* width is at least the requested w and its final height at least the
\* requested h, and the buffer streamed has finalWidth*finalHeight*2
\* bytes, the background color wherever no glyph was written
C22_AreaOnlyGrows ==
    SizedCall(call) =>
      LET a == call.args[1]
          X == Transfers(trace)
          B == X[Len(X)].bytes
      IN  /\ a.w # None => dynamic_area.width >= Val(a.w)
          /\ a.h # None => dynamic_area.height >= Val(a.h)
          /\ result = "" =>
                /\ Len(B) = dynamic_area.width * dynamic_area.height * 2
                /\ Len(a.text) = 0 => \A i \in 1..Len(B) : B[i] = 0

FrameOps == {"on", "off", "set_backlight", "set_invert", "clear", "fill_screen",
             "fill_rect", "draw_pixel", "draw_line", "draw_img", "draw_text"}

\* C24: every public operation other than reset and set_rotation, whether
\* it succeeds or fails, leaves width, height, colstart, rowstart and
\* rotation unchanged
C24_DeviceStateFramed ==
    [][call'.op \in FrameOps => devstate' = devstate]_vars

\* a drawing call that failed in rotation 0, the panel still 80 x 160 at
\* offsets (26, 1)
C24_FailedCallKeptRotation ==
    /\ call.op \in DrawOps
    /\ result # ""
    /\ devstate = <<80, 160, 26, 1, 0>>

\* C25: construction and reset() end in rotation 1 whatever the rotation
\* before: rotation = 1, (width, height) = (160, 80) and
\* (colstart, rowstart) = (1, 26)
C25_ResetToRotationOne ==
    call.op \in {"__init__", "reset"} =>
      /\ rotation = 1
      /\ <<width, height>> = <<160, 80>>
      /\ <<colstart, rowstart>> = <<1, 26>>

\* a reset has run and the panel is in rotation 1
C25_ResetSeen ==
    call.op = "reset" /\ devstate = <<160, 80, 1, 26, 1>>

=============================================================================
